---------------------------- MODULE Spec2Model ----------------------------
(***************************************************************************)
(* A model of server.js: the analytics REST backend.                       *)
(*                                                                         *)
(*   - buildFilter: query object -> (whereClause, params)                  *)
(*   - queryDatabase: createConnection / execute / finally end()           *)
(*   - the seven /api handlers, run concurrently on the event loop, each   *)
(*     step being the code between two awaits.                             *)
(*                                                                         *)
(* Strings the code builds are modelled as sequences of lexical tokens:    *)
(* 'region = ?' is <<"region", " = ", "?">>, so that placeholders can be   *)
(* counted and located.  Decimal strings returned by the database are      *)
(* sequences of characters, parsed by parseFloat.                          *)
(***************************************************************************)
EXTENDS Integers, Sequences, FiniteSets, TLC

VARIABLES
    req,      \* per request slot: the handler's locals and its position
    conns,    \* every connection mysql.createConnection has resolved, in order
    sent,     \* per request slot: the responses written to res, in order
    fquery,   \* buildFilter harness: the query object under evaluation
    fresult   \* buildFilter harness: the value buildFilter returned, or NotCalled

vars == <<req, conns, sent, fquery, fresult>>

----------------------------------------------------------------------------
(* buildFilter (server.js 48-76)                                           *)

\* The query-string keys a request may carry.  "tier" stands for any key
\* buildFilter does not read.
QueryKeys == {"region", "product", "channel", "category", "tier"}

\* Values a read key may carry: the empty string (?region=), the literal
\* 'All', a differently cased 'all', and an ordinary value.
QueryValues == {"", "All", "all", "East"}

\* Values of the unread key.
TierValues == {"Gold"}

\* req.query: a JS object, here a function from the keys present to strings.
QueryObjects ==
    { q \in UNION { [K -> QueryValues \cup TierValues] : K \in SUBSET QueryKeys } :
        \A k \in DOMAIN q : (k = "tier") <=> (q[k] \in TierValues) }

\* JS: query.k && query.k !== 'All'   (undefined and '' are falsy)
Truthy(query, k) == k \in DOMAIN query /\ query[k] # ""

Active(query, k) == Truthy(query, k) /\ query[k] # "All"

\* Array.prototype.join(sep) on a list of token sequences.
RECURSIVE Join(_, _)
Join(parts, sep) ==
    IF parts = <<>> THEN <<>>
    ELSE IF Len(parts) = 1 THEN Head(parts)
    ELSE Head(parts) \o sep \o Join(Tail(parts), sep)

\* One "if (...) { filters.push(col = ?); params.push(value); }" block.
PushFilter(acc, query, k, column) ==
    IF Active(query, k)
    THEN [filters |-> Append(acc.filters, <<column, " = ", "?">>),
          params  |-> Append(acc.params, query[k])]
    ELSE acc

\* A buildFilter that forgets the 'All' test of the category filter.
buildFilterNoAllTest(query) ==
    LET a0 == [filters |-> <<>>, params |-> <<>>]
        a1 == PushFilter(a0, query, "region", "region")
        a2 == PushFilter(a1, query, "product", "product_name")
        a3 == PushFilter(a2, query, "channel", "sales_channel")
        a4 == IF Truthy(query, "category")
              THEN [filters |-> Append(a3.filters, <<"product_category", " = ", "?">>),
                    params  |-> Append(a3.params, query["category"])]
              ELSE a3
    IN  [whereClause |-> IF Len(a4.filters) > 0
                         THEN <<"WHERE ">> \o Join(a4.filters, <<" AND ">>)
                         ELSE <<>>,
         params |-> a4.params]

\* A buildFilter that pushes the product value before the region value.
buildFilterSwappedParams(query) ==
    LET a0 == [filters |-> <<>>, params |-> <<>>]
        a1 == PushFilter(a0, query, "region", "region")
        a2 == PushFilter(a1, query, "product", "product_name")
        a3 == PushFilter(a2, query, "channel", "sales_channel")
        a4 == PushFilter(a3, query, "category", "product_category")
        p  == IF Active(query, "region") /\ Active(query, "product")
              THEN <<a4.params[2], a4.params[1]>> \o SubSeq(a4.params, 3, Len(a4.params))
              ELSE a4.params
    IN  [whereClause |-> IF Len(a4.filters) > 0
                         THEN <<"WHERE ">> \o Join(a4.filters, <<" AND ">>)
                         ELSE <<>>,
         params |-> p]

\* A buildFilter that concatenates the region value into the predicate.
buildFilterInlineValue(query) ==
    LET a0 == [filters |-> <<>>, params |-> <<>>]
        a1 == IF Active(query, "region")
              THEN [filters |-> <<<<"region", " = ", query["region"]>>>>, params |-> <<>>]
              ELSE a0
        a2 == PushFilter(a1, query, "product", "product_name")
        a3 == PushFilter(a2, query, "channel", "sales_channel")
        a4 == PushFilter(a3, query, "category", "product_category")
    IN  [whereClause |-> IF Len(a4.filters) > 0
                         THEN <<"WHERE ">> \o Join(a4.filters, <<" AND ">>)
                         ELSE <<>>,
         params |-> a4.params]

buildFilter(query) ==
    LET a0 == [filters |-> <<>>, params |-> <<>>]
        a1 == PushFilter(a0, query, "region", "region")
        a2 == PushFilter(a1, query, "product", "product_name")
        a3 == PushFilter(a2, query, "channel", "sales_channel")
        a4 == PushFilter(a3, query, "category", "product_category")
    IN  [whereClause |-> IF Len(a4.filters) > 0
                         THEN <<"WHERE ">> \o Join(a4.filters, <<" AND ">>)
                         ELSE <<>>,
         params |-> a4.params]

----------------------------------------------------------------------------
(* Values crossing the database boundary and their conversions.            *)

\* A JS number, kept in hundredths; NaN is a value of its own.
Num(c) == [nan |-> FALSE, cents |-> c]
NaN == [nan |-> TRUE, cents |-> 0]

\* SQL NULL, and a DECIMAL column value, which mysql2 hands over as a string
\* (here: its characters).
Null == [null |-> TRUE, str |-> <<>>]
Dec(chars) == [null |-> FALSE, str |-> chars]

DigitVal ==
    [c \in {"0", "1", "2", "3", "4", "5", "6", "7", "8", "9"} |->
        CASE c = "0" -> 0 [] c = "1" -> 1 [] c = "2" -> 2 [] c = "3" -> 3
          [] c = "4" -> 4 [] c = "5" -> 5 [] c = "6" -> 6 [] c = "7" -> 7
          [] c = "8" -> 8 [] c = "9" -> 9]

IsDigit(c) == c \in DOMAIN DigitVal

\* The number of consecutive digits of s from position i on.
RECURSIVE DigitRun(_, _)
DigitRun(s, i) ==
    IF i <= Len(s) /\ IsDigit(s[i]) THEN 1 + DigitRun(s, i + 1) ELSE 0

\* The value of the digits s[i .. i+n-1] read as a decimal integer.
RECURSIVE DigitsValue(_, _, _)
DigitsValue(s, i, n) ==
    IF n = 0 THEN 0
    ELSE 10 * DigitsValue(s, i, n - 1) + DigitVal[s[i + n - 1]]

\* parseFloat on a raw column value: the longest prefix [-]digits[.digits];
\* NaN when there is none (null, the empty string).  Fractions are read to
\* two places, which is the scale of the model's decimals.
parseFloat(v) ==
    IF v.null THEN NaN
    ELSE LET s     == v.str
             neg   == Len(s) > 0 /\ s[1] = "-"
             i0    == IF neg THEN 2 ELSE 1
             ni    == DigitRun(s, i0)
             dot   == i0 + ni <= Len(s) /\ s[i0 + ni] = "."
             nf    == IF dot THEN DigitRun(s, i0 + ni + 1) ELSE 0
             whole == DigitsValue(s, i0, ni)
             f1    == IF nf >= 1 THEN DigitVal[s[i0 + ni + 1]] ELSE 0
             f2    == IF nf >= 2 THEN DigitVal[s[i0 + ni + 2]] ELSE 0
             mag   == 100 * whole + 10 * f1 + f2
         IN  IF ni = 0 /\ nf = 0 THEN NaN
             ELSE Num(IF neg THEN 0 - mag ELSE mag)

\* kpis.revenue || 0 : null and '' are falsy, every other string is truthy.
OrZero(v) == IF v.null \/ v.str = <<>> THEN Dec(<<"0">>) ELSE v

\* parseInt(n || 0) on the integer COUNT columns (mysql2 returns numbers).
parseInt(n) == n

\* Number.prototype.toFixed(1) of numer/denom (denom > 0) followed by
\* parseFloat: the nearest multiple of 0.1, ties away from zero; the result
\* is in tenths.
toFixed1(numer, denom) ==
    IF numer >= 0
    THEN (2 * 10 * numer + denom) \div (2 * denom)
    ELSE 0 - ((2 * 10 * (0 - numer) + denom) \div (2 * denom))

\* growth with the length test off by one.
growthOfThreeMonths(growthResults) ==
    IF Len(growthResults) >= 3
    THEN LET firstMonthRev == growthResults[1].monthly_revenue
             lastMonthRev  == growthResults[Len(growthResults)].monthly_revenue
         IN  IF firstMonthRev > 0
             THEN toFixed1((lastMonthRev - firstMonthRev) * 100, firstMonthRev)
             ELSE 0
    ELSE 0

\* growth against the month before the last one.
growthOfPreviousMonth(growthResults) ==
    IF Len(growthResults) >= 2
    THEN LET firstMonthRev == growthResults[Len(growthResults) - 1].monthly_revenue
             lastMonthRev  == growthResults[Len(growthResults)].monthly_revenue
         IN  IF firstMonthRev > 0
             THEN toFixed1((lastMonthRev - firstMonthRev) * 100, firstMonthRev)
             ELSE 0
    ELSE 0

\* server.js 108-116; the value is in tenths of a percent (33.3 is 333).
growthOf(growthResults) ==
    IF Len(growthResults) >= 2
    THEN LET firstMonthRev == growthResults[1].monthly_revenue
             lastMonthRev  == growthResults[Len(growthResults)].monthly_revenue
         IN  IF firstMonthRev > 0
             THEN toFixed1((lastMonthRev - firstMonthRev) * 100, firstMonthRev)
             ELSE 0
    ELSE 0

----------------------------------------------------------------------------
(* The database: what a statement may return.                              *)

\* The size of the result sets the database may return: in the runs of one
\* request (Wide) and in the runs of concurrent requests (Narrow).
MaxRows == 2        \* result rows of a chart statement
MaxMonths == 3      \* result rows of the growth statement
MaxDistinct == 2    \* result rows of a metadata statement
NarrowRows == 0     \* result rows of any statement, concurrent runs

EmptyQuery == [k \in {} |-> ""]

\* A query string of the dashboard: one active filter, one filter set to
\* 'All', and a key buildFilter does not read.
FilteredQuery ==
    [k \in {"region", "category", "tier"} |->
        CASE k = "region" -> "East" [] k = "category" -> "All" [] OTHER -> "Gold"]

Wide ==
    [rows |-> MaxRows, months |-> MaxMonths, distinct |-> MaxDistinct,
     queries |-> {EmptyQuery, FilteredQuery}]
Narrow ==
    [rows |-> NarrowRows, months |-> NarrowRows, distinct |-> NarrowRows,
     queries |-> {FilteredQuery}]

Endpoints ==
    {"kpis", "sales", "products", "regions", "channels", "tiers", "metadata"}

\* A /api/sales handler that runs its statement twice.
StatementsSalesTwice(ep) ==
    CASE ep = "kpis"     -> <<"kpis.totals", "kpis.growth">>
      [] ep = "metadata" -> <<"meta.region", "meta.product_name",
                              "meta.sales_channel", "meta.product_category">>
      [] ep = "sales"    -> <<"sales", "sales">>
      [] OTHER           -> <<ep>>

\* The statements a handler runs, in order.
Statements(ep) ==
    CASE ep = "kpis"     -> <<"kpis.totals", "kpis.growth">>
      [] ep = "metadata" -> <<"meta.region", "meta.product_name",
                              "meta.sales_channel", "meta.product_category">>
      [] OTHER           -> <<ep>>

NumQueries(ep) == Len(Statements(ep))

SeqsUpTo(S, n) == UNION { [1..k -> S] : k \in 0..n }

\* SUM(revenue), COUNT(order_id), COUNT(DISTINCT customer_id) over the
\* filtered rows: always exactly one row; SUM is NULL over no rows.  The
\* two KPI statements run outside any transaction, so what the second one
\* returns is not tied to what the first one returned.
TotalsResults ==
    { <<[revenue |-> Null, orders |-> 0, customers |-> 0]>>,
      <<[revenue |-> Dec(<<"1", "0", "7", ".", "5", "0">>), orders |-> 3, customers |-> 2]>> }

\* Monthly revenues, in whole units.
Revenues == {0, 3, 4}

\* GROUP BY month_year ORDER BY month_year ASC: one row per month, ascending.
GrowthResults(w) ==
    { [i \in DOMAIN rs |-> [month_year |-> 202400 + i, monthly_revenue |-> rs[i]]] :
        rs \in SeqsUpTo(Revenues, w.months) }

ChartRows ==
    { [label |-> "A", value |-> Dec(<<"7">>)],
      [label |-> "B", value |-> Dec(<<"1", "2", ".", "5", "0">>)],
      [label |-> "C", value |-> Null] }

Limit == 5

\* NULL sorts below every number.
SortKey(v) == IF v.null THEN -1 ELSE parseFloat(v).cents

DescByValue(rs) ==
    \A i \in 1..Len(rs) - 1 : SortKey(rs[i].value) >= SortKey(rs[i + 1].value)

DistinctLabels(rs) ==
    \A i, j \in DOMAIN rs : i # j => rs[i].label # rs[j].label

\* sales groups by (label, sort_order): a month name may repeat across years.
\* The others group by the label column; products and channels are ordered
\* by value descending, products are cut at LIMIT 5.
ChartResults(stmt, w) ==
    { rs \in SeqsUpTo(ChartRows, w.rows) :
        /\ stmt # "sales" => DistinctLabels(rs)
        /\ stmt \in {"products", "channels"} => DescByValue(rs)
        /\ stmt = "products" => Len(rs) <= Limit }

\* SELECT DISTINCT col ... ORDER BY col: the first k values, ascending.
MetaResults(w) ==
    { [i \in 1..k |-> i] : k \in 0..w.distinct }

Results(stmt, w) ==
    CASE stmt = "kpis.totals" -> TotalsResults
      [] stmt = "kpis.growth" -> GrowthResults(w)
      [] stmt \in {"meta.region", "meta.product_name",
                   "meta.sales_channel", "meta.product_category"} -> MetaResults(w)
      [] OTHER -> ChartResults(stmt, w)

\* Errors mysql2 may raise from createConnection or execute.
DbErrors == {"ECONNREFUSED", "ER_PARSE_ERROR"}

----------------------------------------------------------------------------
(* queryDatabase (server.js 23-36)                                         *)

NoConnection == 0

\* A createConnection that hands out a connection that is still open
\* instead of a new one.
createConnectionShared(cs, user, sql) ==
    IF \E c \in DOMAIN cs : cs[c].state = "open"
    THEN LET c == CHOOSE c \in DOMAIN cs : cs[c].state = "open"
         IN  [conns |-> [cs EXCEPT ![c].users = @ \cup {user},
                                   ![c].executed = Append(@, sql)],
              connection |-> c]
    ELSE [conns |-> Append(cs, [users |-> {user}, executed |-> <<sql>>,
                                state |-> "open", ends |-> 0]),
          connection |-> Len(cs) + 1]

\* connection = await mysql.createConnection(dbConfig), then
\* connection.execute(sql, params) is issued on it.
createConnection(cs, user, sql) ==
    [conns |-> Append(cs, [users |-> {user}, executed |-> <<sql>>,
                           state |-> "open", ends |-> 0]),
     connection |-> Len(cs) + 1]

\* A release placed at the end of the try block instead of in finally.
FinallyOnSuccessOnly(cs, connection, outcome) ==
    IF connection # NoConnection /\ outcome = "return"
    THEN [cs EXCEPT ![connection].state = "ended", ![connection].ends = @ + 1]
    ELSE cs

\* finally { if (connection) connection.end(); }
Finally(cs, connection, outcome) ==
    IF connection # NoConnection
    THEN [cs EXCEPT ![connection].state = "ended", ![connection].ends = @ + 1]
    ELSE cs

GenericMessage ==
    "Failed to fetch data from MySQL. Check database connection and SQL syntax."

\* A catch block that rethrows what it caught.
CatchRethrow(error) == error

\* catch (error) { console.error(...); throw new Error(<fixed text>); }
Catch(error) == GenericMessage

----------------------------------------------------------------------------
(* The handlers (server.js 80-285)                                         *)

Requests == {"r1", "r2"}

IdleRequest ==
    [pc |-> "idle", ep |-> "none", query |-> EmptyQuery,
     whereClause |-> <<>>, params |-> <<>>,
     qi |-> 0, connection |-> NoConnection, results |-> <<>>, error |-> ""]

\* labels/data with the data column reversed.
ChartBodyReversed(results) ==
    [labels |-> [i \in DOMAIN results |-> results[i].label],
     data   |-> [i \in DOMAIN results |->
                    parseFloat(results[Len(results) + 1 - i].value)]]

\* results.map(row => row.label), results.map(row => parseFloat(row.value))
ChartBody(results) ==
    [labels |-> [i \in DOMAIN results |-> results[i].label],
     data   |-> [i \in DOMAIN results |-> parseFloat(results[i].value)]]

\* { ...kpis, growth, revenue: parseFloat(kpis.revenue || 0), ... }
KpisBody(results, growthResults) ==
    LET kpis == results[1]
    IN  [growth    |-> growthOf(growthResults),
         revenue   |-> parseFloat(OrZero(kpis.revenue)),
         customers |-> parseInt(kpis.customers),
         orders    |-> parseInt(kpis.orders)]

MetadataBody(regions, products, channels, categories) ==
    [regions |-> regions, products |-> products,
     channels |-> channels, categories |-> categories]

SuccessBody(ep, results) ==
    CASE ep = "kpis"     -> KpisBody(results[1], results[2])
      [] ep = "metadata" -> MetadataBody(results[1], results[2], results[3], results[4])
      [] OTHER           -> ChartBody(results[1])

\* The statement the handler passes to queryDatabase: the template with
\* ${whereClause} filled in, and the params.
Sql(r, qi) ==
    [stmt        |-> Statements(r.ep)[qi],
     whereClause |-> r.whereClause,
     params      |-> r.params]

\* The harness before buildFilter has been applied to fquery.
NotCalled == [called |-> FALSE, whereClause |-> <<>>, params |-> <<>>]

Init ==
    /\ req = [r \in Requests |-> IdleRequest]
    /\ conns = <<>>
    /\ sent = [r \in Requests |-> <<>>]
    /\ fquery = EmptyQuery
    /\ fresult = NotCalled

\* A request arrives: the handler runs up to its first await, which is
\* createConnection inside the first queryDatabase call.  /api/metadata
\* does not call buildFilter and passes no params.
Receive(r, w) ==
    /\ req[r].pc = "idle"
    /\ \E ep \in Endpoints, query \in w.queries :
          LET f == IF ep = "metadata"
                   THEN [whereClause |-> <<>>, params |-> <<>>]
                   ELSE buildFilter(query)
          IN  req' = [req EXCEPT ![r] =
                        [pc |-> "connecting", ep |-> ep, query |-> query,
                         whereClause |-> f.whereClause, params |-> f.params,
                         qi |-> 1, connection |-> NoConnection,
                         results |-> <<>>, error |-> ""]]
    /\ UNCHANGED <<conns, sent, fquery, fresult>>

\* createConnection resolves; execute is issued.
ConnectOk(r) ==
    /\ req[r].pc = "connecting"
    /\ LET c == createConnection(conns, <<r, req[r].qi>>, Sql(req[r], req[r].qi))
       IN  /\ conns' = c.conns
           /\ req' = [req EXCEPT ![r].pc = "executing",
                                 ![r].connection = c.connection]
    /\ UNCHANGED <<sent, fquery, fresult>>

\* createConnection rejects: catch, then finally with connection undefined.
ConnectFail(r) ==
    /\ req[r].pc = "connecting"
    /\ \E e \in DbErrors :
          /\ req' = [req EXCEPT ![r].pc = "threw", ![r].error = Catch(e)]
          /\ conns' = Finally(conns, req[r].connection, "throw")
    /\ UNCHANGED <<sent, fquery, fresult>>

\* execute resolves: return rows, then finally.
ExecuteOk(r, w) ==
    /\ req[r].pc = "executing"
    /\ \E rows \in Results(Statements(req[r].ep)[req[r].qi], w) :
          req' = [req EXCEPT ![r].pc = "returned",
                             ![r].results = Append(@, rows)]
    /\ conns' = Finally(conns, req[r].connection, "return")
    /\ UNCHANGED <<sent, fquery, fresult>>

\* execute rejects: catch, then finally.
ExecuteFail(r) ==
    /\ req[r].pc = "executing"
    /\ \E e \in DbErrors :
          req' = [req EXCEPT ![r].pc = "threw", ![r].error = Catch(e)]
    /\ conns' = Finally(conns, req[r].connection, "throw")
    /\ UNCHANGED <<sent, fquery, fresult>>

\* The handler resumes after "await queryDatabase(...)" with rows: it calls
\* queryDatabase for the next statement (a new call, a new local
\* connection), or builds the body and sends it.
Resume(r) ==
    /\ req[r].pc = "returned"
    /\ IF req[r].qi < NumQueries(req[r].ep)
       THEN /\ req' = [req EXCEPT ![r].pc = "connecting", ![r].qi = @ + 1,
                                  ![r].connection = NoConnection]
            /\ UNCHANGED sent
       ELSE /\ req' = [req EXCEPT ![r].pc = "done"]
            /\ sent' = [sent EXCEPT ![r] =
                          Append(@, [status |-> 200,
                                     body |-> SuccessBody(req[r].ep, req[r].results)])]
    /\ UNCHANGED <<conns, fquery, fresult>>

\* The handler's catch: res.status(500).json({ message: error.message }).
HandlerCatch(r) ==
    /\ req[r].pc = "threw"
    /\ req' = [req EXCEPT ![r].pc = "done"]
    /\ sent' = [sent EXCEPT ![r] =
                  Append(@, [status |-> 500, body |-> [message |-> req[r].error]])]
    /\ UNCHANGED <<conns, fquery, fresult>>

Next ==
    \E r \in Requests :
        \/ Receive(r, Narrow)
        \/ ConnectOk(r)
        \/ ConnectFail(r)
        \/ ExecuteOk(r, Narrow)
        \/ ExecuteFail(r)
        \/ Resume(r)
        \/ HandlerCatch(r)

\* Concurrent requests, interleaved at their awaits.
Spec == Init /\ [][Next]_vars

\* One request, handled alone.
NextOne ==
    \E r \in {"r1"} :
        \/ Receive(r, Wide)
        \/ ConnectOk(r)
        \/ ConnectFail(r)
        \/ ExecuteOk(r, Wide)
        \/ ExecuteFail(r)
        \/ Resume(r)
        \/ HandlerCatch(r)

SpecOne == Init /\ [][NextOne]_vars

----------------------------------------------------------------------------
(* The buildFilter harness: a query object is built up key by key, as the  *)
(* query-string parser does, and buildFilter is applied to it.             *)

InitFilter ==
    /\ req = [r \in Requests |-> IdleRequest]
    /\ conns = <<>>
    /\ sent = [r \in Requests |-> <<>>]
    /\ fquery = EmptyQuery
    /\ fresult = NotCalled

\* One more key=value pair is parsed; a repeated key overrides.
AddParam ==
    /\ \E k \in QueryKeys :
       \E v \in (IF k = "tier" THEN TierValues ELSE QueryValues) :
          fquery' = [x \in DOMAIN fquery \cup {k} |-> IF x = k THEN v ELSE fquery[x]]
    /\ fresult' = NotCalled
    /\ UNCHANGED <<req, conns, sent>>

CallBuildFilter ==
    /\ fresult = NotCalled
    /\ LET f == buildFilter(fquery)
       IN  fresult' = [called |-> TRUE, whereClause |-> f.whereClause,
                       params |-> f.params]
    /\ UNCHANGED <<req, conns, sent, fquery>>

NextFilter == AddParam \/ CallBuildFilter

SpecFilter == InitFilter /\ [][NextFilter]_vars

----------------------------------------------------------------------------
(* Properties of buildFilter, stated for SpecFilter.                       *)

KeyOrder == <<"region", "product", "channel", "category">>

ColumnOf(k) ==
    CASE k = "region"  -> "region"
      [] k = "product" -> "product_name"
      [] k = "channel" -> "sales_channel"
      [] k = "category" -> "product_category"

\* A recognized key that is present, non-empty and not the literal 'All'.
Contributes(q, k) == k \in DOMAIN q /\ q[k] \notin {"", "All"}

\* The contributing keys of q, in the fixed order.
Contributing(q) == SelectSeq(KeyOrder, LAMBDA k : Contributes(q, k))

\* The positions of the '?' placeholders of a predicate, ascending.
Placeholders(clause) ==
    LET P == {i \in DOMAIN clause : clause[i] = "?"}
    IN  CHOOSE ph \in [1..Cardinality(P) -> P] :
            \A i, j \in DOMAIN ph : i < j => ph[i] < ph[j]

\* C3: the predicate buildFilter returns has as many '?' placeholders as
\* params has values; the j-th placeholder belongs to the column of the
\* j-th contributing key in the order region, product_name, sales_channel,
\* product_category, and the j-th param is that key's value of the query.
C3_PlaceholdersMatchParams ==
    fresult.called =>
        LET ph  == Placeholders(fresult.whereClause)
            act == Contributing(fquery)
        IN  /\ Len(ph) = Len(fresult.params)
            /\ Len(ph) = Len(act)
            /\ \A j \in DOMAIN ph :
                  /\ ph[j] > 2
                  /\ fresult.whereClause[ph[j] - 2] = ColumnOf(act[j])
                  /\ fresult.whereClause[ph[j] - 1] = " = "
                  /\ fresult.params[j] = fquery[act[j]]

\* C3 witness: buildFilter was applied to a query with all four filters
\* active, and to one where only some are.
C3_Witness ==
    /\ fresult.called
    /\ fresult.params = <<"East", "all", "all", "East">>
    /\ fquery["region"] = "East" /\ fquery["category"] = "East"

\* C7: a recognized key contributes a condition iff it is present,
\* non-empty and not 'All'; whereClause is empty exactly when none
\* contributes (params is then empty too), otherwise it is 'WHERE ' followed
\* by the conditions joined by ' AND '.
C7_ContributionAndShape ==
    fresult.called =>
        LET wc  == fresult.whereClause
            act == Contributing(fquery)
            n   == Len(act)
        IN  /\ \A k \in {"region", "product", "channel", "category"} :
                  (\E i \in DOMAIN wc : wc[i] = ColumnOf(k)) <=> Contributes(fquery, k)
            /\ (wc = <<>>) <=> (n = 0)
            /\ n = 0 => fresult.params = <<>>
            /\ n > 0 =>
                  /\ Len(wc) = 4 * n
                  /\ wc[1] = "WHERE "
                  /\ \A j \in 1..n :
                        /\ wc[4 * j - 2] = ColumnOf(act[j])
                        /\ wc[4 * j - 1] = " = "
                        /\ wc[4 * j] = "?"
                        /\ j < n => wc[4 * j + 1] = " AND "

\* C7 witness: region active, product empty, channel absent, category 'All'.
C7_Witness ==
    /\ fresult.called
    /\ DOMAIN fquery = {"region", "product", "category"}
    /\ fquery["product"] = "" /\ fquery["category"] = "All"
    /\ fresult.whereClause = <<"WHERE ", "region", " = ", "?">>
    /\ fresult.params = <<"all">>

\* C9: whereClause depends only on which filters are active: every query
\* object with the same contributing keys yields the same whereClause; no
\* value of the query occurs in whereClause; and a query object that differs
\* only in unrecognized keys yields the same whereClause and params.
C9_ClauseIndependentOfValues ==
    fresult.called =>
        /\ LET act == Contributing(fquery)
           IN  \A q \in QueryObjects :
                  Contributing(q) = act =>
                      buildFilter(q).whereClause = fresult.whereClause
        /\ \A i \in DOMAIN fresult.whereClause :
              \A k \in DOMAIN fquery :
                  Contributes(fquery, k) => fresult.whereClause[i] # fquery[k]
        /\ \A q \in QueryObjects :
              (\A k \in {"region", "product", "channel", "category"} :
                  /\ (k \in DOMAIN q) <=> (k \in DOMAIN fquery)
                  /\ k \in DOMAIN q => q[k] = fquery[k])
              => LET f == buildFilter(q)
                 IN  /\ f.whereClause = fresult.whereClause
                     /\ f.params = fresult.params

\* C9 witness: buildFilter was applied to a query with an active region
\* value and a tier key.
C9_Witness ==
    /\ fresult.called
    /\ "tier" \in DOMAIN fquery
    /\ "region" \in DOMAIN fquery /\ fquery["region"] = "all"
    /\ fresult.params = <<"all">>

----------------------------------------------------------------------------
(* Properties of queryDatabase and the handlers, stated for Spec.           *)

\* The connections request r has used.
ConnsOf(r) == {c \in DOMAIN conns : \E u \in conns[c].users : u[1] = r}

Acquired(r) == Cardinality(ConnsOf(r))

Answered(r, status) ==
    /\ req[r].pc = "done"
    /\ Len(sent[r]) >= 1
    /\ sent[r][1].status = status

\* C1: once a queryDatabase call has returned or thrown, the connection it
\* acquired (if createConnection resolved) has had end() called on it,
\* whether execute resolved or rejected.
C1_AcquiredConnectionsReleased ==
    \A c \in DOMAIN conns : \A u \in conns[c].users :
        LET r == u[1]
            q == u[2]
        IN  (q < req[r].qi \/ req[r].pc \in {"returned", "threw", "done"})
                => conns[c].state = "ended" /\ conns[c].ends >= 1

\* C1 witness: one call has thrown out of execute and another has returned
\* rows, each with its connection ended; a third outcome, createConnection
\* rejecting, leaves no connection (C6_Witness reaches it).
C1_Witness ==
    /\ req["r1"].pc = "threw"
    /\ req["r1"].connection # NoConnection
    /\ conns[req["r1"].connection].state = "ended"
    /\ req["r2"].pc = "returned"
    /\ req["r2"].connection # NoConnection
    /\ conns[req["r2"].connection].state = "ended"

\* The number of queryDatabase calls of each endpoint, as C2 (amended)
\* states it.
QueriesPerRequest(ep) ==
    CASE ep = "kpis" -> 2 [] ep = "metadata" -> 4 [] OTHER -> 1

\* C2 as stated, in the case most favourable to it (every query of the
\* request succeeded): the request acquired exactly one connection and it
\* is released when the response has been sent.
C2_OneConnectionPerRequest ==
    \A r \in Requests :
        Answered(r, 200) =>
            /\ Acquired(r) = 1
            /\ \A c \in ConnsOf(r) : conns[c].state = "ended"

\* C2 amended: a request acquires one connection per query, not per
\* request: one for every query whose createConnection resolved, so at most
\* 1 for the chart endpoints, 2 for /api/kpis and 4 for /api/metadata, and
\* exactly that many when it answers 200; every one of them is released by
\* the time the response is sent.
C2_OneConnectionPerQuery ==
    \A r \in Requests :
        req[r].pc # "idle" =>
            /\ Acquired(r) =
                  (req[r].qi - 1) + (IF req[r].connection # NoConnection THEN 1 ELSE 0)
            /\ Acquired(r) <= QueriesPerRequest(req[r].ep)
            /\ Answered(r, 200) => Acquired(r) = QueriesPerRequest(req[r].ep)
            /\ req[r].pc = "done" => \A c \in ConnsOf(r) : conns[c].state = "ended"

\* C2 witness: /api/kpis answered 200 having acquired two connections while
\* /api/metadata answered 200 having acquired four.
C2_Witness ==
    /\ Answered("r1", 200) /\ req["r1"].ep = "kpis" /\ Acquired("r1") = 2
    /\ Answered("r2", 200) /\ req["r2"].ep = "metadata" /\ Acquired("r2") = 4

\* C6: a request gets exactly one response, none before it is done; when a
\* query of it failed, no later query is started, no rows of the failed
\* query are kept, and the response is 500 with the fixed message of
\* queryDatabase; a 200 is sent only when every query returned rows.
C6_OneResponseAndGenericError ==
    \A r \in Requests :
        /\ Len(sent[r]) = (IF req[r].pc = "done" THEN 1 ELSE 0)
        /\ req[r].pc = "threw" => req[r].error # ""
        /\ req[r].error # "" =>
              /\ req[r].pc \in {"threw", "done"}
              /\ req[r].error = GenericMessage
              /\ Len(req[r].results) = req[r].qi - 1
              /\ Acquired(r) <= req[r].qi
        /\ (req[r].pc = "done" /\ req[r].error # "") =>
              sent[r] = <<[status |-> 500, body |-> [message |-> GenericMessage]]>>
        /\ (req[r].pc = "done" /\ req[r].error = "") =>
              /\ sent[r][1].status = 200
              /\ Len(req[r].results) = QueriesPerRequest(req[r].ep)

\* C6 witness: /api/kpis answered 500 after its second query failed in
\* execute, and /api/metadata answered 500 after createConnection of its
\* fourth query failed.
C6_Witness ==
    /\ Answered("r1", 500) /\ req["r1"].ep = "kpis" /\ req["r1"].qi = 2
    /\ req["r1"].connection # NoConnection
    /\ Answered("r2", 500) /\ req["r2"].ep = "metadata" /\ req["r2"].qi = 4
    /\ req["r2"].connection = NoConnection
    /\ Acquired("r2") = 3

\* C10: a request has at most one connection open; while it is creating or
\* using the connection of its query qi, the qi-1 earlier queries have
\* returned their rows and their connections have been ended; a connection
\* is used by exactly one query of one request, for one statement, and is
\* ended at most once.
C10_SequentialUnsharedQueries ==
    /\ \A r \in Requests :
          /\ Cardinality({c \in ConnsOf(r) : conns[c].state = "open"}) <= 1
          /\ req[r].pc \in {"connecting", "executing"} =>
                /\ Len(req[r].results) = req[r].qi - 1
                /\ \A c \in DOMAIN conns : \A u \in conns[c].users :
                      (u[1] = r /\ u[2] < req[r].qi) => conns[c].state = "ended"
          /\ req[r].pc = "executing" =>
                /\ req[r].connection \in DOMAIN conns
                /\ conns[req[r].connection].state = "open"
                /\ conns[req[r].connection].users = {<<r, req[r].qi>>}
    /\ \A c \in DOMAIN conns :
          /\ Cardinality(conns[c].users) = 1
          /\ Len(conns[c].executed) = 1
          /\ conns[c].ends <= 1

\* C10 witness: /api/kpis is executing its second query while
\* /api/metadata is executing its third, on different connections.
C10_Witness ==
    /\ req["r1"].pc = "executing" /\ req["r1"].ep = "kpis" /\ req["r1"].qi = 2
    /\ req["r2"].pc = "executing" /\ req["r2"].ep = "metadata" /\ req["r2"].qi = 3
    /\ req["r1"].connection # req["r2"].connection
    /\ Len(conns) = 5

----------------------------------------------------------------------------
(* Properties of the response bodies, stated for SpecOne.                  *)

ChartEndpoints == {"sales", "products", "regions", "channels", "tiers"}

Abs(x) == IF x < 0 THEN 0 - x ELSE x

\* g (in tenths of a percent) is a multiple of 0.1 nearest to the
\* percentage change from base to last.
NearestTenthOfChange(g, base, last) ==
    2 * Abs(g * base - (last - base) * 1000) <= base

\* g (in tenths of a percent) is exactly the percentage change.
ExactChange(g, base, last) == g * base = (last - base) * 1000

Revenue(rows, i) == rows[i].monthly_revenue

\* C4 as stated, in the case most favourable to it (every month above 0,
\* the value rounded to one decimal): with at least two months, growth is
\* the percentage change of the last month relative to the month just
\* before it.
C4_MonthOverMonth ==
    \A r \in Requests :
        (Answered(r, 200) /\ req[r].ep = "kpis") =>
            LET rows == req[r].results[2]
                n    == Len(rows)
            IN  (n >= 2 /\ \A i \in 1..n : Revenue(rows, i) > 0) =>
                    NearestTenthOfChange(sent[r][1].body.growth,
                                         Revenue(rows, n - 1), Revenue(rows, n))

\* C4 amended: growth is a first-to-last percentage: with at least two
\* months in the filtered set it is the percentage change, rounded to one
\* decimal, of the last month's revenue relative to the FIRST month's
\* revenue, and 0 when the first month's revenue is not positive.
C4_FirstToLast ==
    \A r \in Requests :
        (Answered(r, 200) /\ req[r].ep = "kpis") =>
            LET rows == req[r].results[2]
                n    == Len(rows)
                g    == sent[r][1].body.growth
            IN  n >= 2 =>
                    IF Revenue(rows, 1) > 0
                    THEN NearestTenthOfChange(g, Revenue(rows, 1), Revenue(rows, n))
                    ELSE g = 0

\* C4 witness: months 3, 4, 4: growth is 33.3 (first to last), where month
\* over month would be 0.
C4_Witness ==
    /\ Answered("r1", 200) /\ req["r1"].ep = "kpis"
    /\ Len(req["r1"].results[2]) = 3
    /\ Revenue(req["r1"].results[2], 1) = 3
    /\ Revenue(req["r1"].results[2], 2) = 4
    /\ Revenue(req["r1"].results[2], 3) = 4
    /\ sent["r1"][1].body.growth = 333

\* C5: a 200 of a chart endpoint carries exactly labels and data, as long
\* as the result rows, and labels[i], data[i] are the label and the parsed
\* value of the i-th row in the order returned.
C5_LabelsAndDataAligned ==
    \A r \in Requests :
        (Answered(r, 200) /\ req[r].ep \in ChartEndpoints) =>
            LET rows == req[r].results[1]
                body == sent[r][1].body
            IN  /\ DOMAIN body = {"labels", "data"}
                /\ Len(body.labels) = Len(rows)
                /\ Len(body.data) = Len(rows)
                /\ \A i \in DOMAIN rows :
                      /\ body.labels[i] = rows[i].label
                      /\ body.data[i] = parseFloat(rows[i].value)

\* C5 witness: /api/tiers answered rows (B, '12.50'), (A, '7') as
\* labels [B, A] and data [12.5, 7].
C5_Witness ==
    /\ Answered("r1", 200) /\ req["r1"].ep = "tiers"
    /\ sent["r1"][1].body.labels = <<"B", "A">>
    /\ sent["r1"][1].body.data = <<Num(1250), Num(700)>>

\* The statements request r has executed carry the handler's whereClause
\* and params, the same for both KPI queries.
SameFilterInBothQueries(r) ==
    \E c1, c2 \in ConnsOf(r) :
        LET s1  == conns[c1].executed[1]
            s2  == conns[c2].executed[1]
            act == Contributing(req[r].query)
        IN  /\ s1.stmt = "kpis.totals" /\ s2.stmt = "kpis.growth"
            /\ s1.whereClause = s2.whereClause
            /\ s1.params = s2.params
            /\ s1.params = [j \in DOMAIN act |-> req[r].query[act[j]]]
            /\ (s1.whereClause = <<>>) <=> (act = <<>>)

\* C8 as stated: growth is exactly ((last - first) / first) * 100; it is 0
\* with fewer than two months or a first month not above 0; both KPI
\* queries use the same whereClause and params.
C8_ExactFirstToLast ==
    \A r \in Requests :
        (Answered(r, 200) /\ req[r].ep = "kpis") =>
            LET rows == req[r].results[2]
                n    == Len(rows)
                g    == sent[r][1].body.growth
            IN  /\ IF n >= 2 /\ Revenue(rows, 1) > 0
                   THEN ExactChange(g, Revenue(rows, 1), Revenue(rows, n))
                   ELSE g = 0
                /\ SameFilterInBothQueries(r)

\* C8 amended: growth is ((last - first) / first) * 100 between the first
\* and the last month ROUNDED TO ONE DECIMAL PLACE; it is 0 with fewer than
\* two months or a first month not above 0; both KPI queries use the same
\* whereClause and params.
C8_RoundedFirstToLast ==
    \A r \in Requests :
        (Answered(r, 200) /\ req[r].ep = "kpis") =>
            LET rows == req[r].results[2]
                n    == Len(rows)
                g    == sent[r][1].body.growth
            IN  /\ n < 2 => g = 0
                /\ (n >= 2 /\ Revenue(rows, 1) <= 0) => g = 0
                /\ (n >= 2 /\ Revenue(rows, 1) > 0) =>
                      NearestTenthOfChange(g, Revenue(rows, 1), Revenue(rows, n))
                /\ SameFilterInBothQueries(r)

\* C8 witness: a filtered request with months 3, 4: growth is 33.3, and
\* both statements ran with WHERE region = ? and ['East'].
C8_Witness ==
    /\ Answered("r1", 200) /\ req["r1"].ep = "kpis"
    /\ req["r1"].query = FilteredQuery
    /\ Len(req["r1"].results[2]) = 2
    /\ Revenue(req["r1"].results[2], 1) = 3
    /\ Revenue(req["r1"].results[2], 2) = 4
    /\ sent["r1"][1].body.growth = 333
    /\ conns[2].executed[1].whereClause = <<"WHERE ", "region", " = ", "?">>
    /\ conns[2].executed[1].params = <<"East">>

=============================================================================
